---- MODULE Spec2Model ----
(***************************************************************************)
(* Retrieval engine of the RAG assistant (src/src/vectordb.py): chunking,  *)
(* normalized-text deduplication and insertion into the chunk store.       *)
(*                                                                         *)
(* A text is a sequence of one-character strings, so that strip(),         *)
(* lstrip() and the splitter are computed character by character.          *)
(***************************************************************************)
EXTENDS Integers, Sequences, FiniteSets, TLC

\* ---------------------------------------------------------------- bounds

\* add_documents calls in one behaviour
MaxCalls == 3
\* documents passed to one add_documents call
MaxDocs == 2
\* documents passed to one add_documents call when calls interleave
MaxConcDocs == 1

\* ---------------------------------------------------------------- text

\* str.strip() with no argument removes whitespace
Whitespace == {" ", "\t", "\n"}

\* the argument of lstrip(".,;:!? ")
LeadingChars == {".", ",", ";", ":", "!", "?", " "}

RECURSIVE lstrip(_, _)
lstrip(s, chars) ==
    IF s = <<>> THEN s
    ELSE IF Head(s) \in chars THEN lstrip(Tail(s), chars)
    ELSE s

RECURSIVE rstrip(_, _)
rstrip(s, chars) ==
    IF s = <<>> THEN s
    ELSE IF s[Len(s)] \in chars THEN rstrip(SubSeq(s, 1, Len(s) - 1), chars)
    ELSE s

strip(s) == rstrip(lstrip(s, Whitespace), Whitespace)

\* chunk.strip().lstrip(".,;:!? ")
normalized_text(chunk_text) == lstrip(strip(chunk_text), LeadingChars)

\* ---------------------------------------------------------------- splitter

chunk_size == 4
chunk_overlap == 1

separators == << <<"\n", "\n">>, <<"\n">>, <<".", " ">>, <<" ">>, <<>> >>

IsPrefixOf(p, s) == Len(p) <= Len(s) /\ SubSeq(s, 1, Len(p)) = p

RECURSIVE Contains(_, _)
Contains(text, sep) ==
    IF Len(text) < Len(sep) THEN FALSE
    ELSE IsPrefixOf(sep, text) \/ Contains(Tail(text), sep)

\* re.split(sep, text): the pieces between the leftmost non-overlapping matches
RECURSIVE re_split(_, _, _)
re_split(text, sep, cur) ==
    IF text = <<>> THEN <<cur>>
    ELSE IF IsPrefixOf(sep, text)
         THEN <<cur>> \o re_split(SubSeq(text, Len(sep) + 1, Len(text)), sep, <<>>)
         ELSE re_split(Tail(text), sep, Append(cur, Head(text)))

\* keep_separator = True: each separator stays at the start of the piece after it
split_text_with_regex(text, sep) ==
    LET pieces == IF sep = <<>>
                  THEN [i \in 1..Len(text) |-> <<text[i]>>]
                  ELSE LET p == re_split(text, sep, <<>>)
                       IN  [i \in 1..Len(p) |-> IF i = 1 THEN p[1] ELSE sep \o p[i]]
    IN  SelectSeq(pieces, LAMBDA s : s # <<>>)

RECURSIVE join(_)
join(docs) == IF docs = <<>> THEN <<>> ELSE Head(docs) \o join(Tail(docs))

RECURSIVE total_len(_)
total_len(docs) == IF docs = <<>> THEN 0 ELSE Len(Head(docs)) + total_len(Tail(docs))

\* _join_docs with the empty separator; <<>> stands for None
join_docs(docs) == strip(join(docs))

\* the while loop of _merge_splits: drop pieces from the front of current_doc
RECURSIVE pop_front(_, _)
pop_front(current_doc, len) ==
    LET total == total_len(current_doc)
    IN  IF total > chunk_overlap \/ (total + len > chunk_size /\ total > 0)
        THEN pop_front(Tail(current_doc), len)
        ELSE current_doc

\* _merge_splits(splits, ""): the separator is empty because keep_separator is True
RECURSIVE merge_loop(_, _, _)
merge_loop(splits, docs, current_doc) ==
    IF splits = <<>>
    THEN IF join_docs(current_doc) # <<>> THEN Append(docs, join_docs(current_doc)) ELSE docs
    ELSE LET d == Head(splits)
             total == total_len(current_doc)
             over == total + Len(d) > chunk_size
             docs2 == IF over /\ current_doc # <<>> /\ join_docs(current_doc) # <<>>
                      THEN Append(docs, join_docs(current_doc))
                      ELSE docs
             cur2 == IF over /\ current_doc # <<>>
                     THEN pop_front(current_doc, Len(d))
                     ELSE current_doc
         IN  merge_loop(Tail(splits), docs2, Append(cur2, d))

merge_splits(splits) == merge_loop(splits, <<>>, <<>>)

\* index of the first separator that occurs in text (the empty one always does)
RECURSIVE first_separator(_, _, _)
first_separator(text, seps, i) ==
    IF i = Len(seps) \/ seps[i] = <<>> \/ Contains(text, seps[i]) THEN i
    ELSE first_separator(text, seps, i + 1)

\* RecursiveCharacterTextSplitter._split_text
RECURSIVE split_text_rec(_, _)
RECURSIVE split_loop(_, _, _, _)
split_loop(splits, new_separators, good_splits, final_chunks) ==
    IF splits = <<>>
    THEN IF good_splits # <<>> THEN final_chunks \o merge_splits(good_splits)
         ELSE final_chunks
    ELSE LET s == Head(splits)
         IN  IF Len(s) < chunk_size
             THEN split_loop(Tail(splits), new_separators, Append(good_splits, s), final_chunks)
             ELSE LET flushed == IF good_splits # <<>>
                                 THEN final_chunks \o merge_splits(good_splits)
                                 ELSE final_chunks
                      rest == IF new_separators = <<>> THEN <<s>>
                              ELSE split_text_rec(s, new_separators)
                  IN  split_loop(Tail(splits), new_separators, <<>>, flushed \o rest)

split_text_rec(text, seps) ==
    LET i == first_separator(text, seps, 1)
        separator == seps[i]
        new_separators == IF separator = <<>> THEN <<>> ELSE SubSeq(seps, i + 1, Len(seps))
    IN  split_loop(split_text_with_regex(text, separator), new_separators, <<>>, <<>>)

split_text(text) == split_text_rec(text, separators)

\* ---------------------------------------------------------------- documents

MyTitle == <<"M", "y">>

\* the metadata values a test corpus uses; "" is the default of doc.get(key, "")
NoText == <<>>

\* A document is a plain string (isdict = FALSE) or a dict (isdict = TRUE) whose
\* keys are the domain of fields.
StrDoc(text) == [isdict |-> FALSE, text |-> text]
DictDoc(fields) == [isdict |-> TRUE, fields |-> fields]

BaseDocs ==
    { StrDoc(<<"a", "\n", "\n", "a", ".">>),
      DictDoc([content |-> <<"M", "y", "\n", "\n", ".", " ", "a">>,
               title |-> <<"M", "y", " ">>, filename |-> <<"f">>]),
      StrDoc(<<"M", "y", "\n", "\n", "A">>),
      DictDoc([content |-> <<"M", "y", "\n", "\n", ".", "\t", "A">>, tags |-> <<"x">>]) }

\* a document whose declared title ends a sentence of its content
TitleInSentence ==
    DictDoc([content |-> <<"a", ".", " ", "M", "y">>, title |-> <<"M", "y">>,
             filename |-> <<"g">>])

\* a document whose only chunk is punctuation that lstrip removes
PunctuationOnly == StrDoc(<<"?", "!">>)

Corpus == BaseDocs \cup {TitleInSentence}

DocPool == Corpus \cup {PunctuationOnly}

RECURSIVE SeqsUpTo(_, _)
SeqsUpTo(S, n) ==
    IF n = 0 THEN {<<>>}
    ELSE LET shorter == SeqsUpTo(S, n - 1)
         IN  shorter \cup {Append(q, x) : q \in {r \in shorter : Len(r) = n - 1}, x \in S}

DocLists == SeqsUpTo(Corpus, MaxDocs)

\* doc.get(key, "") if isinstance(doc, dict) else ""
doc_get(doc, key) ==
    IF doc.isdict /\ key \in DOMAIN doc.fields THEN doc.fields[key] ELSE NoText

\* doc["content"] if isinstance(doc, dict) else doc
doc_content(doc) == IF doc.isdict THEN doc.fields["content"] ELSE doc.text

doc_metadata(doc) ==
    [title |-> doc_get(doc, "title"),
     filename |-> doc_get(doc, "filename"),
     tags |-> doc_get(doc, "tags")]

\* load_documents: the title is the first non-blank line of the content,
\* trimmed, and the filename when there is none
RECURSIVE first_nonblank(_, _)
first_nonblank(content_lines, filename) ==
    IF content_lines = <<>> THEN filename
    ELSE IF strip(Head(content_lines)) # <<>> THEN strip(Head(content_lines))
    ELSE first_nonblank(Tail(content_lines), filename)

first_nonempty_line(page_content, filename) ==
    first_nonblank(re_split(strip(page_content), <<"\n">>, <<>>), filename)

\* the title test against the title as given, not trimmed
doc_chunks_untrimmed_title(doc) ==
    LET pieces == split_text(doc_content(doc))
        kept == SelectSeq(pieces, LAMBDA chunk : strip(chunk) # doc_get(doc, "title"))
    IN  [i \in 1..Len(kept) |-> [text |-> kept[i], metadata |-> doc_metadata(doc)]]

\* the chunks of one document that pass the title test of the comprehension
doc_chunks(doc) ==
    LET pieces == split_text(doc_content(doc))
        kept == SelectSeq(pieces, LAMBDA chunk : strip(chunk) # strip(doc_get(doc, "title")))
    IN  [i \in 1..Len(kept) |-> [text |-> kept[i], metadata |-> doc_metadata(doc)]]

\* the splitter is deterministic: one evaluation per document of the pool
ChunksOf == [doc \in DocPool |-> doc_chunks(doc)]

\* VectorDB._chunk_documents
RECURSIVE chunk_documents(_)
chunk_documents(documents) ==
    IF documents = <<>> THEN <<>>
    ELSE ChunksOf[Head(documents)] \o chunk_documents(Tail(documents))

\* ---------------------------------------------------------------- collaborators

\* the embedding vector of a text, an opaque deterministic value
embed_documents(texts) == [i \in 1..Len(texts) |-> <<"vec", texts[i]>>]

\* f"document_{idx}"
document_key(idx) == <<"document", idx>>

Ids(coll) == {coll[i].id : i \in 1..Len(coll)}

\* collection.get(): the stored documents
collection_get(coll) == [documents |-> [i \in 1..Len(coll) |-> coll[i].document]]

\* collection.count()
collection_count(coll) == Len(coll)

\* collection.add() takes lists of one length
collection_add_accepts(ids, embeddings, documents, metadatas) ==
    /\ Len(embeddings) = Len(ids)
    /\ Len(documents) = Len(ids)
    /\ Len(metadatas) = Len(ids)

\* collection.add(): appends one record per position; a record whose id is
\* already stored is ignored
collection_add(coll, ids, embeddings, documents, metadatas) ==
    LET recs == [i \in 1..Len(ids) |->
                    [id |-> ids[i], embedding |-> embeddings[i],
                     document |-> documents[i], metadata |-> metadatas[i]]]
    IN  coll \o SelectSeq(recs, LAMBDA r : r.id \notin Ids(coll))

\* ---------------------------------------------------------------- dedup filter

Range(f) == {f[i] : i \in DOMAIN f}

\* batch_dedup with the raw chunk text as the key of seen
RECURSIVE batch_dedup_raw(_, _, _)
batch_dedup_raw(new_chunks, seen, final_chunks) ==
    IF new_chunks = <<>> THEN final_chunks
    ELSE LET chunk == Head(new_chunks)
         IN  IF chunk.text \notin seen
             THEN batch_dedup_raw(Tail(new_chunks), seen \cup {chunk.text},
                                  Append(final_chunks, chunk))
             ELSE batch_dedup_raw(Tail(new_chunks), seen, final_chunks)

\* batch_dedup where a later occurrence replaces the earlier one
RECURSIVE batch_dedup_last(_, _, _)
batch_dedup_last(new_chunks, seen, final_chunks) ==
    IF new_chunks = <<>> THEN final_chunks
    ELSE LET chunk == Head(new_chunks)
             normalized == normalized_text(chunk.text)
             others == SelectSeq(final_chunks,
                                 LAMBDA c : normalized_text(c.text) # normalized)
         IN  batch_dedup_last(Tail(new_chunks), seen \cup {normalized}, Append(others, chunk))

\* the second loop of _filter_duplicate_chunks: first occurrence wins
RECURSIVE batch_dedup(_, _, _)
batch_dedup(new_chunks, seen, final_chunks) ==
    IF new_chunks = <<>> THEN final_chunks
    ELSE LET chunk == Head(new_chunks)
             normalized == normalized_text(chunk.text)
         IN  IF normalized \notin seen
             THEN batch_dedup(Tail(new_chunks), seen \cup {normalized}, Append(final_chunks, chunk))
             ELSE batch_dedup(Tail(new_chunks), seen, final_chunks)

\* _filter_duplicate_chunks comparing the raw chunk text with the stored texts
filter_duplicate_chunks_raw(existing_docs, chunks) ==
    LET existing_texts == Range(existing_docs.documents)
        new_chunks == SelectSeq(chunks, LAMBDA chunk : chunk.text \notin existing_texts)
    IN  batch_dedup(new_chunks, {}, <<>>)

\* _filter_duplicate_chunks without the comparison with the stored texts
filter_duplicate_chunks_batch_only(existing_docs, chunks) ==
    batch_dedup(chunks, {}, <<>>)

\* VectorDB._filter_duplicate_chunks, given the answer of collection.get()
filter_duplicate_chunks(existing_docs, chunks) ==
    LET existing_texts == Range(existing_docs.documents)
        new_chunks == SelectSeq(chunks,
                        LAMBDA chunk : normalized_text(chunk.text) \notin existing_texts)
    IN  batch_dedup(new_chunks, {}, <<>>)

\* ---------------------------------------------------------------- insertion

Faults == {"none", "get", "count", "embed", "add"}

\* keys numbered by position in the batch, not from the store's count
insert_keys_batch_index(next_id, deduplicated_chunks) ==
    [i \in 1..Len(deduplicated_chunks) |-> document_key(i - 1)]

\* keys, chunk_texts and metadata of _insert_chunks_into_db
insert_keys(next_id, deduplicated_chunks) ==
    [i \in 1..Len(deduplicated_chunks) |-> document_key(next_id + i - 1)]

\* the texts as the chunker produced them
insert_chunk_texts_raw(deduplicated_chunks) ==
    [i \in 1..Len(deduplicated_chunks) |-> deduplicated_chunks[i].text]

insert_chunk_texts(deduplicated_chunks) ==
    [i \in 1..Len(deduplicated_chunks) |-> normalized_text(deduplicated_chunks[i].text)]

\* metadata with repeated values dropped
RECURSIVE distinct_values(_, _)
distinct_values(q, acc) ==
    IF q = <<>> THEN acc
    ELSE IF \E k \in 1..Len(acc) : acc[k] = Head(q)
         THEN distinct_values(Tail(q), acc)
         ELSE distinct_values(Tail(q), Append(acc, Head(q)))

insert_metadata_distinct(deduplicated_chunks) ==
    distinct_values([i \in 1..Len(deduplicated_chunks) |-> deduplicated_chunks[i].metadata],
                    <<>>)

insert_metadata(deduplicated_chunks) ==
    [i \in 1..Len(deduplicated_chunks) |-> deduplicated_chunks[i].metadata]

\* a guard that lets an empty batch through
has_chunks_always(deduplicated_chunks) == TRUE

\* `if deduplicated_chunks:`
has_chunks(deduplicated_chunks) == deduplicated_chunks # <<>>

\* a handler that catches and logs the error of a collaborator
outcome_swallowed(op) == "ok"

\* the method has no try/except: the error of a collaborator call leaves it
outcome_on_failure(op) ==
    IF op \in {"embed_documents", "embed_query"} THEN "EmbeddingError" ELSE "StoreError"

\* an insertion that reads the store's count before it filters
insert_chunks_into_db_count_first(coll, chunks_with_metadata, fault) ==
    LET get_call == [op |-> "get"]
        deduplicated_chunks ==
            filter_duplicate_chunks(collection_get(coll), chunks_with_metadata)
        count_call == [op |-> "count"]
        next_id == collection_count(coll)
        keys == insert_keys(next_id, deduplicated_chunks)
        chunk_texts == insert_chunk_texts(deduplicated_chunks)
        metadata == insert_metadata(deduplicated_chunks)
        embed_call == [op |-> "embed_documents", texts |-> chunk_texts]
        embeddings == embed_documents(chunk_texts)
        add_call == [op |-> "add", ids |-> keys, embeddings |-> embeddings,
                     documents |-> chunk_texts, metadatas |-> metadata]
    IN  IF fault = "get"
        THEN [collection |-> coll, deduplicated |-> <<>>, filtered |-> FALSE,
              log |-> <<count_call, get_call>>, raised |-> "get",
              outcome |-> outcome_on_failure("get")]
        ELSE IF ~has_chunks(deduplicated_chunks)
        THEN [collection |-> coll, deduplicated |-> deduplicated_chunks, filtered |-> TRUE,
              log |-> <<count_call, get_call>>, raised |-> "none", outcome |-> "ok"]
        ELSE IF fault = "count"
        THEN [collection |-> coll, deduplicated |-> deduplicated_chunks, filtered |-> TRUE,
              log |-> <<count_call, get_call>>, raised |-> "count",
              outcome |-> outcome_on_failure("count")]
        ELSE IF fault = "embed"
        THEN [collection |-> coll, deduplicated |-> deduplicated_chunks, filtered |-> TRUE,
              log |-> <<count_call, get_call, embed_call>>, raised |-> "embed_documents",
              outcome |-> outcome_on_failure("embed_documents")]
        ELSE IF fault = "add" \/ ~collection_add_accepts(keys, embeddings, chunk_texts, metadata)
        THEN [collection |-> coll, deduplicated |-> deduplicated_chunks, filtered |-> TRUE,
              log |-> <<count_call, get_call, embed_call, add_call>>, raised |-> "add",
              outcome |-> outcome_on_failure("add")]
        ELSE [collection |-> collection_add(coll, keys, embeddings, chunk_texts, metadata),
              deduplicated |-> deduplicated_chunks, filtered |-> TRUE,
              log |-> <<count_call, get_call, embed_call, add_call>>, raised |-> "none",
              outcome |-> "ok"]

\* VectorDB._insert_chunks_into_db on store content coll. fault names the
\* collaborator call that raises, if it is reached. The result holds the store
\* content afterwards, the calls made on the collaborators in order, the call
\* that raised ("none" if none did), and whether the method returned ("ok") or
\* which error left it.
insert_chunks_into_db(coll, chunks_with_metadata, fault) ==
    LET get_call == [op |-> "get"]
        deduplicated_chunks ==
            filter_duplicate_chunks(collection_get(coll), chunks_with_metadata)
        count_call == [op |-> "count"]
        next_id == collection_count(coll)
        keys == insert_keys(next_id, deduplicated_chunks)
        chunk_texts == insert_chunk_texts(deduplicated_chunks)
        metadata == insert_metadata(deduplicated_chunks)
        embed_call == [op |-> "embed_documents", texts |-> chunk_texts]
        embeddings == embed_documents(chunk_texts)
        add_call == [op |-> "add", ids |-> keys, embeddings |-> embeddings,
                     documents |-> chunk_texts, metadatas |-> metadata]
    IN  IF fault = "get"
        THEN [collection |-> coll, deduplicated |-> <<>>, filtered |-> FALSE,
              log |-> <<get_call>>, raised |-> "get",
              outcome |-> outcome_on_failure("get")]
        ELSE IF ~has_chunks(deduplicated_chunks)
        THEN [collection |-> coll, deduplicated |-> deduplicated_chunks, filtered |-> TRUE,
              log |-> <<get_call>>, raised |-> "none", outcome |-> "ok"]
        ELSE IF fault = "count"
        THEN [collection |-> coll, deduplicated |-> deduplicated_chunks, filtered |-> TRUE,
              log |-> <<get_call, count_call>>, raised |-> "count",
              outcome |-> outcome_on_failure("count")]
        ELSE IF fault = "embed"
        THEN [collection |-> coll, deduplicated |-> deduplicated_chunks, filtered |-> TRUE,
              log |-> <<get_call, count_call, embed_call>>, raised |-> "embed_documents",
              outcome |-> outcome_on_failure("embed_documents")]
        ELSE IF fault = "add" \/ ~collection_add_accepts(keys, embeddings, chunk_texts, metadata)
        THEN [collection |-> coll, deduplicated |-> deduplicated_chunks, filtered |-> TRUE,
              log |-> <<get_call, count_call, embed_call, add_call>>, raised |-> "add",
              outcome |-> outcome_on_failure("add")]
        ELSE [collection |-> collection_add(coll, keys, embeddings, chunk_texts, metadata),
              deduplicated |-> deduplicated_chunks, filtered |-> TRUE,
              log |-> <<get_call, count_call, embed_call, add_call>>, raised |-> "none",
              outcome |-> "ok"]

\* VectorDB.add_documents
add_documents(coll, documents, fault) ==
    insert_chunks_into_db(coll, chunk_documents(documents), fault)

\* ---------------------------------------------------------------- search

MaxK == 3

\* the texts searched for
Queries == { <<"a">>, <<"M", "y", "?">> }

\* the embedding provider's vector of a query
embed_query(query) == <<"vec", query>>

Fields == {"documents", "metadatas", "distances", "ids"}

\* a value of the store's response: None, or a list with one list per query
None == [is_none |-> TRUE, lists |-> <<>>]
List(lists) == [is_none |-> FALSE, lists |-> lists]

\* Python's truth value of such a value: None and [] are false
truthy(value) == ~value.is_none /\ value.lists # <<>>

\* dict.get(key, default)
dict_get(results, key, default) ==
    IF key \in DOMAIN results THEN results[key] ELSE default

\* how a store may present a field of a response that holds no match: one
\* empty list per query, no such field, None, or an empty list
EmptyShapes == {"nested", "missing", "none", "empty"}

abs(n) == IF n < 0 THEN 0 - n ELSE n

\* the store's distance between a query vector and a stored vector
distance(query_embedding, embedding) == abs(Len(query_embedding[2]) - Len(embedding[2]))

\* the positions of the n_results records of coll nearest to the query, nearest
\* first; records at the same distance in insertion order
nearest(coll, query_embedding, n_results) ==
    LET distances == [i \in 1..Len(coll) |-> distance(query_embedding, coll[i].embedding)]
        nearer(i) == {j \in 1..Len(coll) :
                        distances[j] < distances[i] \/ (distances[j] = distances[i] /\ j < i)}
        found == IF Len(coll) < n_results THEN Len(coll) ELSE n_results
    IN  [h \in 1..found |-> CHOOSE i \in 1..Len(coll) : Cardinality(nearer(i)) = h - 1]

\* collection.query(query_embeddings, n_results): for every query the
\* n_results nearest records, each field nested one level per query. shape
\* says how each field of a response without any match is presented.
collection_query(coll, query_embeddings, n_results, shape) ==
    LET hits == [q \in 1..Len(query_embeddings) |->
                    nearest(coll, query_embeddings[q], n_results)]
        column(q, key) ==
            [h \in 1..Len(hits[q]) |->
                IF key = "documents" THEN coll[hits[q][h]].document
                ELSE IF key = "metadatas" THEN coll[hits[q][h]].metadata
                ELSE IF key = "distances"
                     THEN distance(query_embeddings[q], coll[hits[q][h]].embedding)
                ELSE coll[hits[q][h]].id]
        no_match == \A q \in 1..Len(query_embeddings) : hits[q] = <<>>
        present == IF no_match THEN {key \in Fields : shape[key] # "missing"} ELSE Fields
    IN  [key \in present |->
            IF no_match /\ shape[key] = "none" THEN None
            ELSE IF no_match /\ shape[key] = "empty" THEN List(<<>>)
            ELSE List([q \in 1..Len(query_embeddings) |-> column(q, key)])]

\* an unwrapping that hands on the nested value whatever it is
safe_get_nested(results, key) == dict_get(results, key, List(<<<<>>>>)).lists

\* safe_get of _extract_search_results
safe_get(results, key) ==
    IF truthy(dict_get(results, key, None))
    THEN dict_get(results, key, List(<<<<>>>>)).lists[1]
    ELSE <<>>

reversed(list) == [i \in 1..Len(list) |-> list[Len(list) + 1 - i]]

\* an extraction that returns the farthest hit first
extract_search_results_reversed(results) ==
    <<reversed(safe_get(results, "documents")), reversed(safe_get(results, "metadatas")),
      reversed(safe_get(results, "distances")), reversed(safe_get(results, "ids"))>>

\* VectorDB._extract_search_results
extract_search_results(results) ==
    <<safe_get(results, "documents"), safe_get(results, "metadatas"),
      safe_get(results, "distances"), safe_get(results, "ids")>>

SearchFaults == {"none", "embed_query", "query"}

NoResult == [documents |-> <<>>, metadatas |-> <<>>, distances |-> <<>>, ids |-> <<>>]

\* VectorDB.search on store content coll. The result holds the store's
\* response, the returned dictionary, the calls made on the collaborators in
\* order, and whether the method returned ("ok") or which error left it.
search(coll, query, n_results, shape, fault) ==
    LET embed_call == [op |-> "embed_query", text |-> query]
        query_embedding == embed_query(query)
        query_call == [op |-> "query", query_embeddings |-> <<query_embedding>>,
                       n_results |-> n_results]
        results == collection_query(coll, <<query_embedding>>, n_results, shape)
        extracted == extract_search_results(results)
    IN  IF fault = "embed_query"
        THEN [response |-> <<>>, result |-> NoResult, log |-> <<embed_call>>,
              outcome |-> outcome_on_failure("embed_query")]
        ELSE IF fault = "query"
        THEN [response |-> <<>>, result |-> NoResult, log |-> <<embed_call, query_call>>,
              outcome |-> outcome_on_failure("query")]
        ELSE [response |-> results,
              result |-> [documents |-> extracted[1], metadatas |-> extracted[2],
                          distances |-> extracted[3], ids |-> extracted[4]],
              log |-> <<embed_call, query_call>>, outcome |-> "ok"]

\* ---------------------------------------------------------------- conversation memory

MaxTurns == 3

default_window_size == 20
default_max_messages == 50
default_memory_key == "chat_history"
default_summary_prompt == "Summarize the conversation so far in a few sentences."

\* the values a YAML file can hold, by their Python type
PyNone == [type |-> "NoneType", val |-> <<>>]
PyInt(n) == [type |-> "int", val |-> n]
PyStr(str) == [type |-> "str", val |-> str]
PyDict(items) == [type |-> "dict", val |-> items]
EmptyDict == PyDict(<<>>)

\* Python's truth value of such a value
py_truthy(value) ==
    IF value.type = "NoneType" THEN FALSE
    ELSE IF value.type = "int" THEN value.val # 0
    ELSE IF value.type = "str" THEN value.val # ""
    ELSE DOMAIN value.val # {}

\* the values of MEMORY_STRATEGY: the four the manager knows and one it does not
StrategyNames == {"simple_buffer", "summarization_sliding_window", "summary", "none", "window"}

\* the names a strategies file has entries for
ConfiguredNames == {"simple_buffer", "summarization_sliding_window", "summary"}

\* the entries a strategies file may hold for a strategy: nothing after the
\* key, a string, a mapping without parameters, parameters with nothing after
\* the key, and parameters with values
Entries ==
    { PyNone, PyStr("on"), EmptyDict, PyDict([parameters |-> PyNone]),
      PyDict([parameters |-> PyDict([memory_key |-> PyStr("history")])]) }
    \cup { PyDict([parameters |-> PyDict([memory_key |-> PyStr("history"),
                                          max_messages |-> PyInt(m),
                                          window_size |-> PyInt(m)])]) : m \in {1, 2} }

\* the states of the configuration source: PyYAML not installed; the file
\* missing, unreadable or not YAML; or loaded with its top-level value
ConfigSources ==
    { [file |-> f, top |-> PyNone] : f \in {"no_yaml", "missing", "unreadable", "unparseable"} }
    \cup { [file |-> "loaded", top |-> t] :
              t \in {PyNone, PyStr("simple_buffer"), EmptyDict}
                    \cup { PyDict([name \in ConfiguredNames |-> entry]) : entry \in Entries } }

\* a loader that lets the error of a missing file through
load_memory_strategy_config_uncaught(strategy, source) ==
    IF source.file = "no_yaml" THEN [raised |-> "none", config |-> EmptyDict]
    ELSE IF source.file = "missing" THEN [raised |-> "FileNotFoundError", config |-> PyNone]
    ELSE IF source.file = "unreadable" THEN [raised |-> "PermissionError", config |-> PyNone]
    ELSE IF source.file = "unparseable" THEN [raised |-> "YAMLError", config |-> PyNone]
    ELSE LET strategies == IF py_truthy(source.top) THEN source.top ELSE EmptyDict
         IN  IF strategies.type # "dict"
             THEN [raised |-> "AttributeError", config |-> PyNone]
             ELSE [raised |-> "none",
                   config |-> IF strategy \in DOMAIN strategies.val
                              THEN strategies.val[strategy] ELSE EmptyDict]

\* MemoryManager._load_memory_strategy_config: only FileNotFoundError is caught
load_memory_strategy_config(strategy, source) ==
    IF source.file = "no_yaml" THEN [raised |-> "none", config |-> EmptyDict]
    ELSE IF source.file = "missing" THEN [raised |-> "none", config |-> EmptyDict]
    ELSE IF source.file = "unreadable" THEN [raised |-> "PermissionError", config |-> PyNone]
    ELSE IF source.file = "unparseable" THEN [raised |-> "YAMLError", config |-> PyNone]
    ELSE LET strategies == IF py_truthy(source.top) THEN source.top ELSE EmptyDict
         IN  IF strategies.type # "dict"
             THEN [raised |-> "AttributeError", config |-> PyNone]
             ELSE [raised |-> "none",
                   config |-> IF strategy \in DOMAIN strategies.val
                              THEN strategies.val[strategy] ELSE EmptyDict]

\* a parameter read that ignores the configured value
parameter_default(config, name, default) ==
    IF config.type # "dict" THEN [raised |-> "AttributeError", value |-> PyNone]
    ELSE LET parameters == IF "parameters" \in DOMAIN config.val
                           THEN config.val["parameters"] ELSE EmptyDict
         IN  IF parameters.type # "dict"
             THEN [raised |-> "AttributeError", value |-> PyNone]
             ELSE [raised |-> "none", value |-> default]

\* self.config.get("parameters", {}).get(name, default): a config or a
\* parameters value that is not a mapping has no get
parameter(config, name, default) ==
    IF config.type # "dict" THEN [raised |-> "AttributeError", value |-> PyNone]
    ELSE LET parameters == IF "parameters" \in DOMAIN config.val
                           THEN config.val["parameters"] ELSE EmptyDict
         IN  IF parameters.type # "dict"
             THEN [raised |-> "AttributeError", value |-> PyNone]
             ELSE [raised |-> "none",
                   value |-> IF name \in DOMAIN parameters.val
                             THEN parameters.val[name] ELSE default]

\* self.memory = None
NoMemory == [kind |-> "None"]

\* the three strategies, as constructed: no turn, no summary
SimpleBufferMemory(memory_key, max_messages) ==
    [kind |-> "SimpleBufferMemory", memory_key |-> memory_key,
     max_messages |-> max_messages, turns |-> <<>>]

SlidingWindowMemory(window_size, memory_key) ==
    [kind |-> "SlidingWindowMemory", memory_key |-> memory_key,
     window_size |-> window_size, turns |-> <<>>, summary |-> <<>>]

SummaryMemory(memory_key, summary_prompt) ==
    [kind |-> "SummaryMemory", memory_key |-> memory_key,
     summary_prompt |-> summary_prompt, summary |-> <<>>]

\* what an initializer leaves: self.memory, the constructors it called, and
\* the exception its handler caught ("none" if none was raised)
Fallback(instantiated, caught) ==
    [memory |-> NoMemory, instantiated |-> instantiated, caught |-> caught]

Initialized(memory) ==
    [memory |-> memory, instantiated |-> <<memory.kind>>, caught |-> "none"]

\* MemoryManager._initialize_sliding_window_memory; ctor_raises says whether
\* the strategy's constructor raises
initialize_sliding_window_memory(config, ctor_raises) ==
    LET window_size == parameter(config, "window_size", PyInt(default_window_size))
        memory_key == parameter(config, "memory_key", PyStr(default_memory_key))
    IN  IF window_size.raised # "none" THEN Fallback(<<>>, window_size.raised)
        ELSE IF memory_key.raised # "none" THEN Fallback(<<>>, memory_key.raised)
        ELSE IF ctor_raises THEN Fallback(<<"SlidingWindowMemory">>, "constructor")
        ELSE Initialized(SlidingWindowMemory(window_size.value, memory_key.value))

\* MemoryManager._initialize_simple_buffer_memory
initialize_simple_buffer_memory(config, ctor_raises) ==
    LET memory_key == parameter(config, "memory_key", PyStr(default_memory_key))
        max_messages == parameter(config, "max_messages", PyInt(default_max_messages))
    IN  IF memory_key.raised # "none" THEN Fallback(<<>>, memory_key.raised)
        ELSE IF max_messages.raised # "none" THEN Fallback(<<>>, max_messages.raised)
        ELSE IF ctor_raises THEN Fallback(<<"SimpleBufferMemory">>, "constructor")
        ELSE Initialized(SimpleBufferMemory(memory_key.value, max_messages.value))

\* MemoryManager._initialize_summary_memory
initialize_summary_memory(config, ctor_raises) ==
    LET memory_key == parameter(config, "memory_key", PyStr(default_memory_key))
        summary_prompt == parameter(config, "summary_prompt", PyStr(default_summary_prompt))
    IN  IF memory_key.raised # "none" THEN Fallback(<<>>, memory_key.raised)
        ELSE IF summary_prompt.raised # "none" THEN Fallback(<<>>, summary_prompt.raised)
        ELSE IF ctor_raises THEN Fallback(<<"SummaryMemory">>, "constructor")
        ELSE Initialized(SummaryMemory(memory_key.value, summary_prompt.value))

\* a dispatch that gives an unknown name the buffer
initialize_memory_default_buffer(strategy, config, ctor_raises) ==
    IF strategy = "summarization_sliding_window"
    THEN initialize_sliding_window_memory(config, ctor_raises)
    ELSE IF strategy = "summary" THEN initialize_summary_memory(config, ctor_raises)
    ELSE IF strategy = "none" THEN Fallback(<<>>, "none")
    ELSE initialize_simple_buffer_memory(config, ctor_raises)

\* MemoryManager._initialize_memory
initialize_memory(strategy, config, ctor_raises) ==
    IF strategy = "summarization_sliding_window"
    THEN initialize_sliding_window_memory(config, ctor_raises)
    ELSE IF strategy = "simple_buffer"
    THEN initialize_simple_buffer_memory(config, ctor_raises)
    ELSE IF strategy = "summary" THEN initialize_summary_memory(config, ctor_raises)
    ELSE IF strategy = "none" THEN Fallback(<<>>, "none")
    ELSE Fallback(<<>>, "none")

\* no manager yet
Uninitialized ==
    [state |-> "uninitialized", strategy |-> "", config |-> PyNone, memory |-> NoMemory,
     instantiated |-> <<>>, caught |-> "none", raised |-> "none"]

\* MemoryManager.__init__ with MEMORY_STRATEGY = strategy: the manager, or
\* the exception that left the constructor
MemoryManager(strategy, source, ctor_raises) ==
    LET loaded == load_memory_strategy_config(strategy, source)
        initialized == initialize_memory(strategy, loaded.config, ctor_raises)
    IN  IF loaded.raised # "none"
        THEN [Uninitialized EXCEPT !.state = "failed", !.strategy = strategy,
                                   !.raised = loaded.raised]
        ELSE [state |-> "constructed", strategy |-> strategy, config |-> loaded.config,
              memory |-> initialized.memory, instantiated |-> initialized.instantiated,
              caught |-> initialized.caught, raised |-> "none"]

\* the last n elements of a sequence
last_n(seq, n) == IF Len(seq) <= n THEN seq ELSE SubSeq(seq, Len(seq) - n + 1, Len(seq))

\* the strategy's save_context: the buffer keeps the max_messages most recent
\* turns; the window keeps the window_size most recent turns and summarizes
\* the ones that leave it; the summary keeps a summary of all turns
save_context(memory, inputs, outputs) ==
    LET turn == [input_text |-> inputs.input, output_text |-> outputs.output]
    IN  IF memory.kind = "SimpleBufferMemory"
        THEN [memory EXCEPT !.turns = last_n(Append(@, turn), memory.max_messages.val)]
        ELSE IF memory.kind = "SlidingWindowMemory"
        THEN LET all == Append(memory.turns, turn)
                 kept == last_n(all, memory.window_size.val)
             IN  [memory EXCEPT !.turns = kept,
                                !.summary = @ \o SubSeq(all, 1, Len(all) - Len(kept))]
        ELSE [memory EXCEPT !.summary = Append(@, turn)]

\* the strategy's load_memory_variables: {memory_key: rendered history}
load_memory_variables(memory) ==
    memory.memory_key.val :>
        (IF memory.kind = "SimpleBufferMemory" THEN memory.turns
         ELSE IF memory.kind = "SlidingWindowMemory"
              THEN [summary |-> memory.summary, turns |-> memory.turns]
         ELSE memory.summary)

\* `if self.memory:` a strategy instance is true, None is false
memory_truthy(memory) == memory.kind # "None"

Saved(manager, save_call) ==
    [manager |-> manager, strategy_ops |-> save_call, logged |-> <<>>, outcome |-> "ok"]

\* add_message without the handler
add_message_raising(manager, input_text, output_text, save_raises) ==
    LET inputs == [input |-> input_text]
        outputs == [output |-> output_text]
        save_call == <<[op |-> "save_context", inputs |-> inputs, outputs |-> outputs]>>
    IN  IF ~memory_truthy(manager.memory) THEN Saved(manager, <<>>)
        ELSE IF save_raises
        THEN [Saved(manager, save_call) EXCEPT !.outcome = "StrategyError"]
        ELSE Saved([manager EXCEPT !.memory = save_context(@, inputs, outputs)], save_call)

\* add_message that leaves out a turn without input text
add_message_skipping_empty(manager, input_text, output_text, save_raises) ==
    LET inputs == [input |-> input_text]
        outputs == [output |-> output_text]
        save_call == <<[op |-> "save_context", inputs |-> inputs, outputs |-> outputs]>>
    IN  IF ~memory_truthy(manager.memory) \/ input_text = "" THEN Saved(manager, <<>>)
        ELSE IF save_raises
        THEN [Saved(manager, save_call) EXCEPT !.logged = <<"Error saving to memory">>]
        ELSE Saved([manager EXCEPT !.memory = save_context(@, inputs, outputs)], save_call)

\* add_message with a handler that gives up the strategy
add_message_degrading(manager, input_text, output_text, save_raises) ==
    LET inputs == [input |-> input_text]
        outputs == [output |-> output_text]
        save_call == <<[op |-> "save_context", inputs |-> inputs, outputs |-> outputs]>>
    IN  IF ~memory_truthy(manager.memory) THEN Saved(manager, <<>>)
        ELSE IF save_raises
        THEN [Saved([manager EXCEPT !.memory = NoMemory], save_call)
                 EXCEPT !.logged = <<"Error saving to memory">>]
        ELSE Saved([manager EXCEPT !.memory = save_context(@, inputs, outputs)], save_call)

\* MemoryManager.add_message; save_raises says whether save_context raises
add_message(manager, input_text, output_text, save_raises) ==
    LET inputs == [input |-> input_text]
        outputs == [output |-> output_text]
        save_call == <<[op |-> "save_context", inputs |-> inputs, outputs |-> outputs]>>
    IN  IF ~memory_truthy(manager.memory) THEN Saved(manager, <<>>)
        ELSE IF save_raises
        THEN [Saved(manager, save_call) EXCEPT !.logged = <<"Error saving to memory">>]
        ELSE Saved([manager EXCEPT !.memory = save_context(@, inputs, outputs)], save_call)

EmptyMapping == <<>>

Loaded(result, load_call) ==
    [result |-> result, strategy_ops |-> load_call, logged |-> <<>>, outcome |-> "ok"]

\* get_memory_variables without the handler
get_memory_variables_raising(manager, load_raises) ==
    LET load_call == <<[op |-> "load_memory_variables"]>>
    IN  IF ~memory_truthy(manager.memory) THEN Loaded(EmptyMapping, <<>>)
        ELSE IF load_raises
        THEN [Loaded(EmptyMapping, load_call) EXCEPT !.outcome = "StrategyError"]
        ELSE Loaded(load_memory_variables(manager.memory), load_call)

\* MemoryManager.get_memory_variables; load_raises says whether
\* load_memory_variables raises
get_memory_variables(manager, load_raises) ==
    LET load_call == <<[op |-> "load_memory_variables"]>>
    IN  IF ~memory_truthy(manager.memory) THEN Loaded(EmptyMapping, <<>>)
        ELSE IF load_raises
        THEN [Loaded(EmptyMapping, load_call)
                 EXCEPT !.logged = <<"Error loading memory variables">>]
        ELSE Loaded(load_memory_variables(manager.memory), load_call)

\* ---------------------------------------------------------------- assistant

\* "\n".join(flat_docs)
RECURSIVE join_lines(_)
join_lines(flat_docs) ==
    IF flat_docs = <<>> THEN <<>>
    ELSE IF Len(flat_docs) = 1 THEN Head(flat_docs)
    ELSE Head(flat_docs) \o <<"\n">> \o join_lines(Tail(flat_docs))

\* lines 87-92: the documents of VectorDB.search are strings, not lists, so
\* the list is taken as it is
flat_docs_of(search_results) ==
    IF "documents" \in DOMAIN search_results THEN search_results["documents"] ELSE <<>>

\* self.chain.invoke: the answer of the LLM to the prompt, a text of its own
chain_invoke(context, question) == <<"answer", question>>

Invoked(manager, log, outcome, response) ==
    [manager |-> manager, log |-> log, outcome |-> outcome, response |-> response]

\* invoke with a handler that records the turn of a failed chain call
invoke_recording_failures(coll, manager, query, n_results, search_fault, chain_raises, save_raises) ==
    LET search_results ==
            search(coll, query, n_results, [key \in Fields |-> "nested"], search_fault)
        search_step == [op |-> "search", query |-> query, n_results |-> n_results]
        flat_docs == flat_docs_of(search_results.result)
        context == IF flat_docs # <<>> THEN join_lines(flat_docs) ELSE <<>>
        chain_step == [op |-> "chain.invoke", context |-> context, question |-> query]
        response == chain_invoke(context, query)
        failed == add_message(manager, query, <<>>, save_raises)
        saved_turn == add_message(manager, query, response, save_raises)
    IN  IF search_results.outcome # "ok"
        THEN Invoked(manager, <<search_step>>, search_results.outcome, <<>>)
        ELSE IF chain_raises
        THEN Invoked(failed.manager,
                     <<search_step, chain_step,
                       [op |-> "add_message", input_text |-> query, output_text |-> <<>>]>>,
                     "ChainError", <<>>)
        ELSE Invoked(saved_turn.manager,
                     <<search_step, chain_step,
                       [op |-> "add_message", input_text |-> query, output_text |-> response],
                       [op |-> "return", value |-> response]>>,
                     "ok", response)

\* RAGAssistant.invoke on store content coll with memory manager manager:
\* the manager afterwards, the steps taken in order, whether the method
\* returned ("ok") or which error left it, and the response
invoke(coll, manager, query, n_results, search_fault, chain_raises, save_raises) ==
    LET search_results ==
            search(coll, query, n_results, [key \in Fields |-> "nested"], search_fault)
        search_step == [op |-> "search", query |-> query, n_results |-> n_results]
        flat_docs == flat_docs_of(search_results.result)
        context == IF flat_docs # <<>> THEN join_lines(flat_docs) ELSE <<>>
        chain_step == [op |-> "chain.invoke", context |-> context, question |-> query]
        response == chain_invoke(context, query)
        saved_turn == add_message(manager, query, response, save_raises)
    IN  IF search_results.outcome # "ok"
        THEN Invoked(manager, <<search_step>>, search_results.outcome, <<>>)
        ELSE IF chain_raises
        THEN Invoked(manager, <<search_step, chain_step>>, "ChainError", <<>>)
        ELSE Invoked(saved_turn.manager,
                     <<search_step, chain_step,
                       [op |-> "add_message", input_text |-> query, output_text |-> response],
                       [op |-> "return", value |-> response]>>,
                     "ok", response)

\* ---------------------------------------------------------------- state

VARIABLES
    collection,     \* the chunk store: a sequence of records, in insertion order
    calls,          \* add_documents calls made so far
    pc,             \* "idle", or "returned" right after an add_documents call
    documents,      \* the argument of the call that has just returned
    chunks,         \* its chunks_with_metadata
    before,         \* the store content when that call began
    last,           \* what that call did (a result of insert_chunks_into_db)
    proc,           \* interleaved calls: each caller's position and locals
    appends,        \* interleaved calls: store.add calls completed so far
    search_call,    \* the search call that has just returned
    source,         \* the configuration source the manager was constructed from
    manager,        \* the session's MemoryManager
    memory_call,    \* the call on the manager that has just returned
    messages,       \* add_message calls made so far
    saved,          \* the turns the strategy has saved, oldest first
    attempts,       \* save_context calls made on the strategy so far
    invocation      \* the invoke call of the assistant that has just returned

\* the variables of the operations on the chunk store
store_vars == <<collection, calls, pc, documents, chunks, before, last, proc, appends>>

\* the variables of the operations on the memory manager
memory_vars == <<source, manager, memory_call, messages, saved, attempts>>

vars == <<store_vars, search_call, memory_vars, invocation>>

\* the callers of the interleaved specification
Procs == {1, 2}

Idle == [pc |-> "idle", deduplicated |-> <<>>, next_id |-> 0, stamp |-> 0]

NoCall == [collection |-> <<>>, deduplicated |-> <<>>, filtered |-> FALSE,
           log |-> <<>>, raised |-> "none", outcome |-> "ok"]

NoSearch == [query |-> <<>>, n_results |-> 0, response |-> <<>>, result |-> NoResult,
             log |-> <<>>, outcome |-> "ok"]

NoSource == [file |-> "unset", top |-> PyNone]

NoMemoryCall == [op |-> "none", before |-> Uninitialized, input_text |-> "",
                 output_text |-> "", raises |-> FALSE,
                 strategy_ops |-> <<>>, logged |-> <<>>, outcome |-> "ok",
                 result |-> EmptyMapping]

NoInvocation == [op |-> "none", query |-> <<>>, search_fault |-> "none",
                 chain_raises |-> FALSE, log |-> <<>>, outcome |-> "ok", response |-> <<>>]

Init ==
    /\ collection = <<>>
    /\ calls = 0
    /\ pc = "idle"
    /\ documents = <<>>
    /\ chunks = <<>>
    /\ before = <<>>
    /\ last = NoCall
    /\ proc = [p \in Procs |-> Idle]
    /\ appends = 0
    /\ search_call = NoSearch
    /\ source = NoSource
    /\ manager = Uninitialized
    /\ memory_call = NoMemoryCall
    /\ messages = 0
    /\ saved = <<>>
    /\ attempts = 0
    /\ invocation = NoInvocation

\* one whole add_documents(docs) call on the store
AddDocuments(docs, fault) ==
    /\ pc = "idle"
    /\ calls < MaxCalls
    /\ calls' = calls + 1
    /\ pc' = "returned"
    /\ documents' = docs
    /\ chunks' = chunk_documents(docs)
    /\ before' = collection
    /\ last' = add_documents(collection, docs, fault)
    /\ collection' = last'.collection
    /\ UNCHANGED <<proc, appends, search_call, memory_vars, invocation>>

\* the caller has the outcome; the locals of the call are gone
Return ==
    /\ pc # "idle"
    /\ pc' = "idle"
    /\ documents' = <<>>
    /\ chunks' = <<>>
    /\ before' = <<>>
    /\ last' = NoCall
    /\ search_call' = NoSearch
    /\ UNCHANGED <<collection, calls, proc, appends, memory_vars, invocation>>

Next ==
    \/ \E docs \in DocLists, fault \in Faults : AddDocuments(docs, fault)
    \/ Return

Spec == Init /\ [][Next]_vars

\* ---------------------------------------------------------------- interleaved calls

\* add_documents has no lock: between its three store calls (get, count, add)
\* another caller's store calls may take place. Each store call is atomic.

ConcDocLists == SeqsUpTo(BaseDocs, MaxConcDocs)

seq_vars == <<pc, documents, chunks, before, last, search_call, memory_vars, invocation>>

\* lines 86-98: chunk, read the stored documents, filter; return if nothing is new
ConcFilter(p, docs) ==
    /\ proc[p].pc = "idle"
    /\ calls < MaxCalls
    /\ calls' = calls + 1
    /\ LET deduplicated_chunks ==
               filter_duplicate_chunks(collection_get(collection), chunk_documents(docs))
       IN  proc' = [proc EXCEPT ![p] =
                       IF has_chunks(deduplicated_chunks)
                       THEN [pc |-> "count", deduplicated |-> deduplicated_chunks,
                             next_id |-> 0, stamp |-> 0]
                       ELSE Idle]
    /\ UNCHANGED <<collection, appends, seq_vars>>

\* line 101: next_id = self.collection.count()
ConcCount(p) ==
    /\ proc[p].pc = "count"
    /\ proc' = [proc EXCEPT ![p].pc = "add",
                            ![p].next_id = collection_count(collection),
                            ![p].stamp = appends]
    /\ UNCHANGED <<collection, calls, appends, seq_vars>>

ConcKeys(p) == insert_keys(proc[p].next_id, proc[p].deduplicated)

\* lines 102-116: keys, texts, metadata, embeddings, collection.add. A store
\* that holds one of the ids either ignores that record or rejects the call.
ConcAdd(p, rejects) ==
    /\ proc[p].pc = "add"
    /\ rejects => Range(ConcKeys(p)) \cap Ids(collection) # {}
    /\ LET chunk_texts == insert_chunk_texts(proc[p].deduplicated)
       IN  collection' =
               IF rejects THEN collection
               ELSE collection_add(collection, ConcKeys(p), embed_documents(chunk_texts),
                                   chunk_texts, insert_metadata(proc[p].deduplicated))
    /\ appends' = appends + 1
    /\ proc' = [proc EXCEPT ![p] = Idle]
    /\ UNCHANGED <<calls, seq_vars>>

ConcNext ==
    \/ \E p \in Procs, docs \in ConcDocLists : ConcFilter(p, docs)
    \/ \E p \in Procs : ConcCount(p)
    \/ \E p \in Procs, rejects \in BOOLEAN : ConcAdd(p, rejects)

SpecConc == Init /\ [][ConcNext]_vars

\* ---------------------------------------------------------------- ingestion and search

MaxIngestions == 1

\* one whole search(query, n_results) call on the store; shape matters only
\* to the response of a store without records
Search(query, n_results, shape, fault) ==
    /\ pc = "idle"
    /\ collection # <<>> => shape = [key \in Fields |-> "nested"]
    /\ pc' = "searched"
    /\ \E call \in {search(collection, query, n_results, shape, fault)} :
           search_call' = [query |-> query, n_results |-> n_results] @@ call
    /\ UNCHANGED <<collection, calls, documents, chunks, before, last, proc, appends,
                   memory_vars, invocation>>

SearchNext ==
    \/ \E docs \in DocLists : calls < MaxIngestions /\ AddDocuments(docs, "none")
    \/ \E query \in Queries, n_results \in 1..MaxK, shape \in [Fields -> EmptyShapes],
          fault \in SearchFaults : Search(query, n_results, shape, fault)
    \/ Return

SpecSearch == Init /\ [][SearchNext]_vars

\* ---------------------------------------------------------------- memory manager

\* the texts of a turn
Inputs == {"", "hi", "why"}
Outputs == {"yes"}

\* MemoryManager(llm) at the start of the session
Construct(strategy, config_source, ctor_raises) ==
    /\ manager.state = "uninitialized"
    /\ source' = config_source
    /\ manager' = MemoryManager(strategy, config_source, ctor_raises)
    /\ UNCHANGED <<store_vars, search_call, memory_call, messages, saved, attempts,
                   invocation>>

\* one whole add_message(input_text, output_text) call
AddMessage(input_text, output_text, save_raises) ==
    /\ manager.state = "constructed"
    /\ memory_call.op = "none"
    /\ messages < MaxTurns
    /\ \E call \in {add_message(manager, input_text, output_text, save_raises)} :
           /\ manager' = call.manager
           /\ memory_call' = [op |-> "add_message", before |-> manager,
                              input_text |-> input_text, output_text |-> output_text,
                              raises |-> save_raises, strategy_ops |-> call.strategy_ops, logged |-> call.logged,
                              outcome |-> call.outcome, result |-> EmptyMapping]
           /\ saved' = IF memory_truthy(manager.memory) /\ ~save_raises
                       THEN Append(saved, [input_text |-> input_text,
                                           output_text |-> output_text])
                       ELSE saved
           /\ attempts' = attempts + Len(call.strategy_ops)
    /\ messages' = messages + 1
    /\ UNCHANGED <<store_vars, search_call, source, invocation>>

\* one whole get_memory_variables() call
GetMemoryVariables(load_raises) ==
    /\ manager.state = "constructed"
    /\ memory_call.op = "none"
    /\ \E call \in {get_memory_variables(manager, load_raises)} :
           memory_call' = [op |-> "get_memory_variables", before |-> manager,
                           input_text |-> "", output_text |-> "",
                           raises |-> load_raises, strategy_ops |-> call.strategy_ops, logged |-> call.logged,
                           outcome |-> call.outcome, result |-> call.result]
    /\ UNCHANGED <<store_vars, search_call, source, manager, messages, saved, attempts,
                   invocation>>

\* the caller has the outcome of the call on the manager
MemoryReturn ==
    /\ memory_call.op # "none"
    /\ memory_call' = NoMemoryCall
    /\ UNCHANGED <<store_vars, search_call, source, manager, messages, saved, attempts,
                   invocation>>

MemoryNext ==
    \/ \E strategy \in StrategyNames, config_source \in ConfigSources,
          ctor_raises \in BOOLEAN : Construct(strategy, config_source, ctor_raises)
    \/ \E input_text \in Inputs, output_text \in Outputs, save_raises \in BOOLEAN :
          AddMessage(input_text, output_text, save_raises)
    \/ \E load_raises \in BOOLEAN : GetMemoryVariables(load_raises)
    \/ MemoryReturn

SpecMemory == Init /\ [][MemoryNext]_vars

\* ---------------------------------------------------------------- assistant session

\* RAGAssistant.__init__ builds its memory manager; here from a missing
\* strategies file, so every strategy takes its defaults
AssistantSource == [file |-> "missing", top |-> PyNone]

\* the strategies of the sessions: one that keeps turns and none
AssistantStrategies == {"simple_buffer", "none"}

\* one whole invoke(query, n_results) call
Invoke(query, n_results, search_fault, chain_raises, save_raises) ==
    /\ pc = "idle"
    /\ manager.state = "constructed"
    /\ invocation.op = "none"
    /\ messages < MaxTurns
    /\ \E call \in {invoke(collection, manager, query, n_results, search_fault,
                            chain_raises, save_raises)} :
       LET added == call.outcome = "ok"
       IN  /\ manager' = call.manager
           /\ invocation' = [op |-> "invoke", query |-> query,
                             search_fault |-> search_fault, chain_raises |-> chain_raises,
                             log |-> call.log, outcome |-> call.outcome,
                             response |-> call.response]
           /\ messages' = IF added THEN messages + 1 ELSE messages
           /\ attempts' = IF added /\ memory_truthy(manager.memory)
                          THEN attempts + 1 ELSE attempts
           /\ saved' = IF added /\ memory_truthy(manager.memory) /\ ~save_raises
                       THEN Append(saved, [input_text |-> query,
                                           output_text |-> call.response])
                       ELSE saved
    /\ UNCHANGED <<store_vars, search_call, source, memory_call>>

\* the caller has the response, or the error
InvokeReturn ==
    /\ invocation.op # "none"
    /\ invocation' = NoInvocation
    /\ UNCHANGED <<store_vars, search_call, memory_vars>>

AssistantNext ==
    \/ \E strategy \in AssistantStrategies : Construct(strategy, AssistantSource, FALSE)
    \/ \E doc \in DocPool :
          calls < MaxIngestions /\ invocation.op = "none" /\ AddDocuments(<<doc>>, "none")
    \/ Return
    \/ \E query \in Queries, n_results \in 1..MaxK, search_fault \in SearchFaults,
          chain_raises \in BOOLEAN, save_raises \in BOOLEAN :
          Invoke(query, n_results, search_fault, chain_raises, save_raises)
    \/ InvokeReturn

SpecAssistant == Init /\ [][AssistantNext]_vars

\* ---------------------------------------------------------------- properties

Returned == pc = "returned"

LogOps(log) == {log[i].op : i \in DOMAIN log}

AddCalls(log) == {log[i] : i \in {j \in DOMAIN log : log[j].op = "add"}}

StoredTexts(coll) == {coll[i].document : i \in 1..Len(coll)}

\* the records of a store content, without their order
Records(coll) == {[id |-> coll[i].id, document |-> coll[i].document,
                   metadata |-> coll[i].metadata] : i \in 1..Len(coll)}

\* C1: after add_documents(D) has returned, a second add_documents(D) makes no
\* store.add and leaves the store with exactly the records of the first call.
C1_IdempotentIngestion ==
    (Returned /\ last.outcome = "ok") =>
        LET again == add_documents(collection, documents, "none")
        IN  /\ again.outcome = "ok"
            /\ "add" \notin LogOps(again.log)
            /\ again.collection = collection
            /\ Records(again.collection) = Records(collection)

C1_Witness ==
    /\ Returned
    /\ last.outcome = "ok"
    /\ before # <<>>
    /\ Len(last.deduplicated) >= 2
    /\ Len(chunks) > Len(last.deduplicated)

\* C2: no two stored records have the same normalized text.
C2_NormalizedTextUnique ==
    \A i, j \in 1..Len(collection) :
        i # j => normalized_text(collection[i].document)
                    # normalized_text(collection[j].document)

\* the normalized forms among the candidates that the store does not hold
NewForms(cands, coll) ==
    {normalized_text(cands[i].text) : i \in 1..Len(cands)} \ StoredTexts(coll)

\* C3: the filter keeps one survivor per normalized form: candidates are merged
\* exactly when their normalized forms are equal. Leading '. ' does not
\* distinguish two chunks; trailing punctuation and letter case do.
C3_DedupEquivalence ==
    /\ normalized_text(<<".", " ", "a">>) = normalized_text(<<"a">>)
    /\ normalized_text(<<" ", "a", "\n">>) = normalized_text(<<"a">>)
    /\ normalized_text(<<"a", ".">>) # normalized_text(<<"a">>)
    /\ normalized_text(<<"A">>) # normalized_text(<<"a">>)
    /\ (Returned /\ last.filtered) =>
          /\ Len(last.deduplicated) = Cardinality(NewForms(chunks, before))
          /\ {normalized_text(last.deduplicated[k].text) : k \in 1..Len(last.deduplicated)}
                = NewForms(chunks, before)

C3_Witness ==
    /\ Returned
    /\ last.filtered
    /\ \E i, j \in 1..Len(chunks) :
          /\ chunks[i].text # chunks[j].text
          /\ normalized_text(chunks[i].text) = normalized_text(chunks[j].text)
          /\ normalized_text(chunks[i].text) \in NewForms(chunks, before)
    /\ Len(last.deduplicated) >= 2

\* the positions of the candidates that are first of their normalized form and
\* whose form the store does not hold
FirstPositions(cands, coll) ==
    {i \in 1..Len(cands) :
        /\ normalized_text(cands[i].text) \notin StoredTexts(coll)
        /\ \A j \in 1..(i - 1) :
              normalized_text(cands[j].text) # normalized_text(cands[i].text)}

\* the k-th smallest member of a set of numbers
Kth(S, k) == CHOOSE x \in S : Cardinality({y \in S : y < x}) = k - 1

\* C4: the survivors are the candidates at the first position of each new
\* normalized form, each with its own metadata, in input order.
C4_FirstOccurrenceWins ==
    (Returned /\ last.filtered) =>
        LET first == FirstPositions(chunks, before)
        IN  /\ Len(last.deduplicated) = Cardinality(first)
            /\ \A k \in 1..Len(last.deduplicated) :
                  last.deduplicated[k] = chunks[Kth(first, k)]

C4_Witness ==
    /\ Returned
    /\ last.filtered
    /\ \E i, j \in 1..Len(chunks) :
          /\ i < j
          /\ i \in FirstPositions(chunks, before)
          /\ normalized_text(chunks[i].text) = normalized_text(chunks[j].text)
          /\ chunks[i].metadata # chunks[j].metadata
    /\ Len(last.deduplicated) >= 2

\* C5: an inserting call appends records with the ids document_<n> for
\* n = count .. count + survivors - 1 and leaves the records before them as
\* they were; the ids of the store are pairwise distinct.
C5_IdentifierAssignment ==
    [][ /\ Len(collection') >= Len(collection)
        /\ SubSeq(collection', 1, Len(collection)) = collection
        /\ \A k \in 1..(Len(collection') - Len(collection)) :
              collection'[Len(collection) + k].id = document_key(Len(collection) + k - 1)
        /\ Cardinality(Ids(collection')) = Len(collection')
        /\ \A call \in AddCalls(last'.log) :
              /\ Len(call.ids) = Len(last'.deduplicated)
              /\ \A k \in 1..Len(call.ids) :
                    call.ids[k] = document_key(collection_count(collection) + k - 1)
        /\ (last'.outcome = "ok" /\ last'.deduplicated # <<>>) =>
              Len(collection') = Len(collection) + Len(last'.deduplicated)
      ]_vars

C5_Witness ==
    /\ Returned
    /\ last.outcome = "ok"
    /\ before # <<>>
    /\ Len(collection) >= Len(before) + 2

\* C7: a call whose deduplicated set is empty returns normally, calls neither
\* embed_documents nor store.add, and leaves the store content unchanged.
C7_EmptyBatchNoOp ==
    (Returned /\ last.filtered /\ last.deduplicated = <<>>) =>
        /\ last.outcome = "ok"
        /\ last.raised = "none"
        /\ LogOps(last.log) \cap {"embed_documents", "add"} = {}
        /\ collection = before

C7_Witness ==
    /\ Returned
    /\ last.filtered
    /\ last.deduplicated = <<>>
    /\ chunks # <<>>
    /\ before # <<>>

\* C8: when embed_documents raises, the error leaves add_documents, store.add
\* is not called and the store content is unchanged; an error of store.get,
\* store.count or store.add leaves add_documents too.
C8_FailurePropagates ==
    Returned =>
        /\ last.raised = "embed_documents" =>
              /\ last.outcome = "EmbeddingError"
              /\ "add" \notin LogOps(last.log)
              /\ collection = before
        /\ last.raised \in {"get", "count", "add"} => last.outcome = "StoreError"
        /\ last.outcome = "ok" => last.raised = "none"

C8_Witness ==
    /\ Returned
    /\ last.raised = "embed_documents"
    /\ Len(last.deduplicated) >= 2
    /\ before # <<>>

\* C9: a store.add call passes one id, one embedding, one text and one metadata
\* per surviving chunk, and position i of each belongs to the i-th survivor.
C9_AddArgumentsAligned ==
    Returned =>
        \A call \in AddCalls(last.log) :
            /\ Len(call.ids) = Len(last.deduplicated)
            /\ Len(call.embeddings) = Len(last.deduplicated)
            /\ Len(call.documents) = Len(last.deduplicated)
            /\ Len(call.metadatas) = Len(last.deduplicated)
            /\ \A i \in 1..Len(last.deduplicated) :
                  /\ call.ids[i] = document_key(Len(before) + i - 1)
                  /\ call.documents[i] = lstrip(strip(last.deduplicated[i].text), LeadingChars)
                  /\ call.metadatas[i] = last.deduplicated[i].metadata
                  /\ call.embeddings[i] = <<"vec", call.documents[i]>>

C9_Witness ==
    /\ Returned
    /\ last.outcome = "ok"
    /\ "add" \in LogOps(last.log)
    /\ \E i, j \in 1..Len(last.deduplicated) :
          /\ last.deduplicated[i].metadata # last.deduplicated[j].metadata
          /\ last.deduplicated[i].text # normalized_text(last.deduplicated[i].text)

\* C6: two interleaved calls that both read store.count() with no store.add
\* between the two reads hand out a common id; a call whose count is still
\* current when it adds (as in any serial execution) hands out no stored id.
C6_ConcurrentIdRace ==
    /\ \A p, q \in Procs :
          (p # q /\ proc[p].pc = "add" /\ proc[q].pc = "add"
                 /\ proc[p].stamp = proc[q].stamp)
              => Range(ConcKeys(p)) \cap Range(ConcKeys(q)) # {}
    /\ \A p \in Procs :
          (proc[p].pc = "add" /\ proc[p].stamp = appends)
              => Range(ConcKeys(p)) \cap Ids(collection) = {}

C6_Witness ==
    /\ proc[1].pc = "add"
    /\ proc[2].pc = "add"
    /\ proc[1].stamp = proc[2].stamp
    /\ collection # <<>>
    /\ ConcKeys(1)[1] = ConcKeys(2)[1]
    /\ proc[1].deduplicated[1] # proc[2].deduplicated[1]

\* C10 as claimed: no document whose first line is the title, given as a
\* string or as a dict with or without a title, yields a chunk whose trimmed
\* text is the title.
C10_TitleExcludedForAnyDocument ==
    Returned =>
        \A i \in 1..Len(documents) :
            first_nonempty_line(doc_content(documents[i]), NoText) = MyTitle
                => \A k \in 1..Len(ChunksOf[documents[i]]) :
                       strip(ChunksOf[documents[i]][k].text) # MyTitle

\* C10 amended: no chunk of a document that declares the title (a dict whose
\* title field, trimmed, is the title) has trimmed text equal to the title.
C10_DeclaredTitleExcluded ==
    Returned =>
        \A k \in 1..Len(chunks) :
            strip(chunks[k].metadata.title) = MyTitle => strip(chunks[k].text) # MyTitle

C10_Witness ==
    /\ Returned
    /\ \E i \in 1..Len(documents) :
          /\ strip(doc_get(documents[i], "title")) = MyTitle
          /\ first_nonempty_line(doc_content(documents[i]), NoText) = MyTitle
          /\ MyTitle \in Range(split_text(doc_content(documents[i])))
    /\ \E k \in 1..Len(chunks) : strip(chunks[k].metadata.title) = MyTitle

\* C11: no stored record of a document that declares a title has the trimmed
\* title as its text.
C11_TitleNeverPersisted ==
    \A i \in 1..Len(collection) :
        strip(collection[i].metadata.title) # <<>>
            => collection[i].document # strip(collection[i].metadata.title)

Searched == pc = "searched" /\ search_call.outcome = "ok"

\* a response of the store that holds no match: every field is missing,
\* None, an empty list, or a list of empty per-query lists
NoMatch(results) ==
    \A key \in Fields :
        key \in DOMAIN results =>
            \/ results[key].is_none
            \/ \A q \in 1..Len(results[key].lists) : results[key].lists[q] = <<>>

\* C12: a search that returns from a store that is empty, or whose response
\* holds no match (per-query lists empty, or a field missing, None or empty),
\* returns four empty lists rather than raising.
C12_EmptySearch ==
    (Searched /\ (collection = <<>> \/ NoMatch(search_call.response)))
        => /\ NoMatch(search_call.response)
           /\ search_call.result = NoResult

C12_Witness ==
    /\ Searched
    /\ collection = <<>>
    /\ DOMAIN search_call.response = Fields \ {"documents"}
    /\ search_call.response["metadatas"] = None
    /\ search_call.response["distances"] = List(<<>>)
    /\ search_call.response["ids"] = List(<<<<>>>>)
    /\ search_call.result = NoResult

\* the store's list for the first query in a field of its response
FirstQueryList(results, key) ==
    IF key \in DOMAIN results /\ truthy(results[key]) THEN results[key].lists[1] ELSE <<>>

\* C13: a search that returns has sent the store one query embedding and k, and
\* returns in each of the four fields exactly the store's list for that
\* embedding, so the distances are non-decreasing and no list is longer than k;
\* it makes no store.add and leaves the store as it was.
C13_SearchPassesThrough ==
    [][(pc' = "searched" /\ search_call'.outcome = "ok") =>
          /\ search_call'.log =
                 << [op |-> "embed_query", text |-> search_call'.query],
                    [op |-> "query",
                     query_embeddings |-> <<embed_query(search_call'.query)>>,
                     n_results |-> search_call'.n_results] >>
          /\ \A key \in Fields :
                 /\ search_call'.result[key] = FirstQueryList(search_call'.response, key)
                 /\ Len(search_call'.result[key]) <= search_call'.n_results
          /\ \A i \in 1..Len(search_call'.result.distances) - 1 :
                 search_call'.result.distances[i] <= search_call'.result.distances[i + 1]
          /\ "add" \notin LogOps(search_call'.log)
          /\ collection' = collection]_vars

C13_Witness ==
    /\ Searched
    /\ Len(collection) > search_call.n_results
    /\ Len(search_call.result.ids) = 2
    /\ search_call.result.ids[1] = document_key(1)
    /\ search_call.result.distances[1] < search_call.result.distances[2]

Constructed == manager.state = "constructed"

Disabled(mgr) == mgr.memory = NoMemory

\* the state of a constructed manager named by its strategy and instance
InBuffer(mgr) == mgr.strategy = "simple_buffer" /\ mgr.memory.kind = "SimpleBufferMemory"
InSlidingWindow(mgr) ==
    mgr.strategy = "summarization_sliding_window" /\ mgr.memory.kind = "SlidingWindowMemory"
InSummary(mgr) == mgr.strategy = "summary" /\ mgr.memory.kind = "SummaryMemory"

StatesOf(mgr) ==
    {st \in {"BUFFER", "SLIDING_WINDOW", "SUMMARY", "DISABLED"} :
        \/ st = "BUFFER" /\ InBuffer(mgr)
        \/ st = "SLIDING_WINDOW" /\ InSlidingWindow(mgr)
        \/ st = "SUMMARY" /\ InSummary(mgr)
        \/ st = "DISABLED" /\ Disabled(mgr)}

\* C14: a constructed manager is in exactly one of BUFFER, SLIDING_WINDOW,
\* SUMMARY and DISABLED, at most one strategy constructor was called, and no
\* add_message or get_memory_variables call, failing or not, changes the
\* strategy name, the state, or the instance (its kind and memory key), or
\* calls a constructor.
C14_SelectionIsOneShot ==
    [][manager'.state = "constructed" =>
          /\ Cardinality(StatesOf(manager')) = 1
          /\ Len(manager'.instantiated) <= 1
          /\ manager.state = "constructed" =>
                 /\ manager'.strategy = manager.strategy
                 /\ StatesOf(manager') = StatesOf(manager)
                 /\ manager'.instantiated = manager.instantiated
                 /\ manager'.memory.kind = manager.memory.kind
                 /\ ~Disabled(manager) =>
                        manager'.memory.memory_key = manager.memory.memory_key]_vars

C14_Witness ==
    /\ InSlidingWindow(manager)
    /\ messages = 3
    /\ Len(saved) = 1
    /\ memory_call.op = "add_message"
    /\ memory_call.raises
    /\ memory_call.logged # <<>>

Recognized == {"summarization_sliding_window", "simple_buffer", "summary", "none"}

\* C15 as stated: a constructed manager is DISABLED exactly when the strategy
\* is "none", or is not a recognized name, or the selected strategy's
\* constructor raised.
C15_DisabledExactlyWhen ==
    Constructed =>
        (Disabled(manager) <=> \/ manager.strategy = "none"
                               \/ manager.strategy \notin Recognized
                               \/ manager.caught = "constructor")

\* the initializer cannot read parameters from this configuration
ParametersUnreadable(config) ==
    \/ config.type # "dict"
    \/ "parameters" \in DOMAIN config.val /\ config.val["parameters"].type # "dict"

\* C15, amended: a constructed manager is DISABLED exactly when the strategy
\* is "none", or is not a recognized name, or the selected strategy's
\* initializer raised: reading the parameters of a configuration that is not
\* a mapping (or whose parameters are not one), or the strategy's constructor.
\* What the initializer raises is caught: it never makes construction fail.
C15_DisabledExactlyWhenInitializerRaised ==
    /\ Constructed =>
          /\ Disabled(manager) <=>
                 \/ manager.strategy = "none"
                 \/ manager.strategy \notin Recognized
                 \/ ParametersUnreadable(manager.config)
                 \/ manager.caught = "constructor"
          /\ manager.caught = "constructor" => Len(manager.instantiated) = 1
          /\ manager.caught = "AttributeError" <=>
                 (manager.strategy \in Recognized \ {"none"}
                     /\ ParametersUnreadable(manager.config))
    /\ manager.state = "failed" =>
          /\ load_memory_strategy_config(manager.strategy, source).raised = manager.raised
          /\ manager.raised # "none"

C15_Witness ==
    /\ Constructed
    /\ manager.strategy = "summary"
    /\ manager.caught = "constructor"
    /\ manager.instantiated = <<"SummaryMemory">>
    /\ Disabled(manager)

\* C16: add_message returns normally from every manager state; a save that
\* raises is logged and leaves the manager as it was.
C16_AddMessageNeverRaises ==
    memory_call.op = "add_message" =>
        /\ memory_call.outcome = "ok"
        /\ (memory_call.raises /\ ~Disabled(memory_call.before)) =>
               /\ memory_call.logged = <<"Error saving to memory">>
               /\ Len(memory_call.strategy_ops) = 1
               /\ manager = memory_call.before
        /\ Disabled(memory_call.before) =>
               /\ memory_call.logged = <<>>
               /\ manager = memory_call.before

C16_Witness ==
    /\ memory_call.op = "add_message"
    /\ memory_call.raises
    /\ InBuffer(memory_call.before)
    /\ memory_call.before.memory.turns # <<>>
    /\ memory_call.outcome = "ok"

\* C17: get_memory_variables returns normally: the strategy's mapping as it is
\* when the read succeeds, the empty mapping when the manager is DISABLED or
\* the read raises; on a DISABLED manager no call ever reaches a strategy.
C17_GetMemoryVariablesNeverRaises ==
    /\ memory_call.op = "get_memory_variables" =>
          /\ memory_call.outcome = "ok"
          /\ manager = memory_call.before
          /\ IF Disabled(manager) \/ memory_call.raises
             THEN DOMAIN memory_call.result = {}
             ELSE /\ DOMAIN memory_call.result = {manager.memory.memory_key.val}
                  /\ memory_call.result = load_memory_variables(manager.memory)
                  /\ memory_call.strategy_ops = <<[op |-> "load_memory_variables"]>>
    /\ (Constructed /\ Disabled(manager)) =>
          /\ memory_call.strategy_ops = <<>>
          /\ saved = <<>>

C17_Witness ==
    /\ memory_call.op = "get_memory_variables"
    /\ Disabled(manager)
    /\ messages = 2
    /\ DOMAIN memory_call.result = {}
    /\ memory_call.strategy_ops = <<>>

\* the file is missing, or is loaded and holds no entry for the strategy
ConfigurationAbsent ==
    \/ source.file = "missing"
    \/ /\ source.file = "loaded"
       /\ ~py_truthy(source.top) \/ (source.top.type = "dict"
                                      /\ manager.strategy \notin DOMAIN source.top.val)

\* C18: with the strategies file missing, or without an entry for the
\* configured strategy, construction completes and the manager's config is
\* the empty mapping.
C18_AbsentConfigurationIsEmpty ==
    (manager.state # "uninitialized" /\ ConfigurationAbsent) =>
        /\ Constructed
        /\ manager.raised = "none"
        /\ manager.config.type = "dict"
        /\ DOMAIN manager.config.val = {}

C18_Witness ==
    /\ Constructed
    /\ source.file = "missing"
    /\ InBuffer(manager)
    /\ manager.memory.max_messages = PyInt(default_max_messages)

\* the max_messages of the manager's configuration
ConfiguredMaxMessages ==
    IF "parameters" \in DOMAIN manager.config.val
       /\ "max_messages" \in DOMAIN manager.config.val["parameters"].val
    THEN manager.config.val["parameters"].val["max_messages"].val
    ELSE default_max_messages

Min(a, b) == IF a <= b THEN a ELSE b

\* C19: the buffer configured with max_messages = m holds, of the n turns
\* saved, exactly the min(m, n) most recent, in order.
C19_BufferRetention ==
    InBuffer(manager) =>
        LET m == ConfiguredMaxMessages
            n == Len(saved)
            retained == manager.memory.turns
        IN  /\ Len(retained) = Min(m, n)
            /\ \A i \in 1..Len(retained) : retained[i] = saved[n - Len(retained) + i]

C19_Witness ==
    /\ InBuffer(manager)
    /\ ConfiguredMaxMessages = 2
    /\ Len(saved) = 3
    /\ saved[1] # saved[2]
    /\ manager.memory.turns = <<saved[2], saved[3]>>

StepOps(log) == [i \in 1..Len(log) |-> log[i].op]

\* C20: an invoke that returns has searched, then called the chain, then made
\* one add_message(input_text = query, output_text = response), then returned
\* the response; an invoke whose search or chain call raises ends with that
\* error and makes no add_message.
C20_InvokeOrdering ==
    invocation.op = "invoke" =>
        IF invocation.search_fault # "none" \/ invocation.chain_raises
        THEN /\ invocation.outcome # "ok"
             /\ \A i \in 1..Len(invocation.log) : invocation.log[i].op # "add_message"
             /\ StepOps(invocation.log) =
                    IF invocation.search_fault # "none" THEN <<"search">>
                    ELSE <<"search", "chain.invoke">>
        ELSE /\ invocation.outcome = "ok"
             /\ StepOps(invocation.log) = <<"search", "chain.invoke", "add_message", "return">>
             /\ invocation.log[1].query = invocation.query
             /\ invocation.log[2].question = invocation.query
             /\ invocation.response = chain_invoke(invocation.log[2].context, invocation.query)
             /\ invocation.log[3] = [op |-> "add_message", input_text |-> invocation.query,
                                     output_text |-> invocation.response]
             /\ invocation.log[4].value = invocation.response

C20_Witness ==
    /\ invocation.op = "invoke"
    /\ invocation.chain_raises
    /\ invocation.outcome = "ChainError"
    /\ collection # <<>>
    /\ Len(saved) = 1
    /\ InBuffer(manager)

\* C21: on a manager with an active strategy every add_message(input, output)
\* makes exactly one save_context({"input": input}, {"output": output}) on the
\* strategy, whatever the texts and whether or not earlier saves raised; the
\* strategy stays active, so the save attempts number the add_message calls.
C21_OneSavePerMessage ==
    /\ (memory_call.op = "add_message" /\ ~Disabled(memory_call.before)) =>
          /\ memory_call.strategy_ops =
                 << [op |-> "save_context",
                     inputs |-> [input |-> memory_call.input_text],
                     outputs |-> [output |-> memory_call.output_text]] >>
          /\ ~Disabled(manager)
          /\ manager.memory.kind = memory_call.before.memory.kind
    /\ (Constructed /\ ~Disabled(manager)) => attempts = messages

C21_Witness ==
    /\ memory_call.op = "add_message"
    /\ InSummary(manager)
    /\ memory_call.input_text = ""
    /\ ~memory_call.raises
    /\ messages = 3
    /\ attempts = 3
    /\ Len(saved) = 1

EmbedCalls(log) == {i \in DOMAIN log : log[i].op = "embed_documents"}

\* C22: an add_documents call makes at most one embed_documents call, with
\* exactly the normalized texts of the chunks that survived the filter, and
\* none of these texts is a text the store already held.
C22_EmbeddedOncePerUniqueChunk ==
    Returned =>
        /\ Cardinality(EmbedCalls(last.log)) <= 1
        /\ \A i \in EmbedCalls(last.log) :
               /\ last.log[i].texts = [k \in 1..Len(last.deduplicated) |->
                                          normalized_text(last.deduplicated[k].text)]
               /\ Range(last.log[i].texts) \cap StoredTexts(before) = {}

C22_Witness ==
    /\ Returned
    /\ before # <<>>
    /\ EmbedCalls(last.log) # {}
    /\ Len(chunks) > Len(last.deduplicated)
    /\ \E k \in 1..Len(last.deduplicated) :
           normalized_text(last.deduplicated[k].text) # last.deduplicated[k].text

OpsNamed(log, op) == {i \in DOMAIN log : log[i].op = op}

\* C23: an add_documents call reads the stored documents once, first of all;
\* when nothing survives the filter that read is its only call and the store
\* is as before; the store's count is read only when there are survivors.
C23_FilterReadsStoreOnce ==
    Returned =>
        /\ Cardinality(OpsNamed(last.log, "get")) = 1
        /\ last.log[1].op = "get"
        /\ last.deduplicated = <<>> =>
               /\ last.log = <<[op |-> "get"]>>
               /\ last.collection = before
        /\ OpsNamed(last.log, "count") # {} =>
               /\ last.deduplicated # <<>>
               /\ OpsNamed(last.log, "count") = {2}

C23_Witness ==
    /\ Returned
    /\ before # <<>>
    /\ last.outcome = "ok"
    /\ last.filtered
    /\ chunks # <<>>
    /\ last.deduplicated = <<>>
    /\ last.log = <<[op |-> "get"]>>

\* C24: in the chunks the splitter produces for a document, every chunk after
\* the first begins with the last min(chunk_overlap, length of the previous
\* chunk) characters of the chunk before it.
C24_ChunkOverlap ==
    \A doc \in Range(documents) :
        LET pieces == split_text(doc_content(doc))
        IN  \A i \in 2..Len(pieces) :
                LET previous == pieces[i - 1]
                    n == Min(chunk_overlap, Len(previous))
                IN  IsPrefixOf(SubSeq(previous, Len(previous) - n + 1, Len(previous)), pieces[i])

C27_NoEmptyRecord ==
    \A i \in 1..Len(collection) : collection[i].document # <<>>

\* the records of a store content in the store's order
StoredRecords(coll) ==
    [i \in 1..Len(coll) |-> [id |-> coll[i].id, document |-> coll[i].document, metadata |-> coll[i].metadata]]

\* the store after add_documents of the first k documents and then of the rest
SplitAt(coll, docs, k) ==
    LET first == add_documents(coll, SubSeq(docs, 1, k), "none")
    IN  add_documents(first.collection, SubSeq(docs, k + 1, Len(docs)), "none").collection

\* C28: add_documents(A) followed by add_documents(B) leaves the records (ids,
\* texts, metadata) that one add_documents(A + B) leaves, from any store.
C28_BatchSplitEquivalence ==
    (Returned /\ last.outcome = "ok") =>
        \A k \in 0..Len(documents) :
            StoredRecords(SplitAt(before, documents, k)) = StoredRecords(collection)

\* a batch of two documents on a store with records: the second document has a
\* chunk that only the first document's chunks make a duplicate, and a new one
C28_Witness ==
    /\ Returned
    /\ last.outcome = "ok"
    /\ before # <<>>
    /\ Len(documents) = 2
    /\ LET A == add_documents(before, SubSeq(documents, 1, 1), "none")
           B == add_documents(A.collection, SubSeq(documents, 2, 2), "none")
       IN  /\ A.deduplicated # <<>>
           /\ B.deduplicated # <<>>
           /\ Len(B.deduplicated) < Len(add_documents(before, SubSeq(documents, 2, 2), "none").deduplicated)
           /\ \E i \in 1..Len(B.deduplicated) :
                  normalized_text(B.deduplicated[i].text) # B.deduplicated[i].text

\* C29: a chunk whose normalized text is stored is dropped whatever its
\* document's title, filename and tags are, no record with a stored text is
\* added, and the records the store held keep their id, text and metadata.
C29_GlobalDedupNeverUpdates ==
    Returned =>
        /\ Len(collection) >= Len(before)
        /\ SubSeq(collection, 1, Len(before)) = before
        /\ \A k \in 1..Len(chunks) :
               normalized_text(chunks[k].text) \in StoredTexts(before) =>
                   \A i \in 1..Len(last.deduplicated) :
                       normalized_text(last.deduplicated[i].text) # normalized_text(chunks[k].text)
        /\ \A i \in Len(before) + 1..Len(collection) :
               collection[i].document \notin StoredTexts(before)

\* a chunk of another document, with other metadata than the record that holds
\* its normalized text, in a call that also adds records
C29_Witness ==
    /\ Returned
    /\ last.outcome = "ok"
    /\ Len(collection) > Len(before)
    /\ \E k \in 1..Len(chunks), i \in 1..Len(before) :
           /\ normalized_text(chunks[k].text) = before[i].document
           /\ chunks[k].metadata # before[i].metadata
           /\ \A j \in 1..Len(before) :
                  before[j].document = before[i].document => before[j].metadata # chunks[k].metadata
           /\ collection[i] = before[i]

\* C30: the construction of the memory manager ends with a manager (with a
\* strategy instance or without one) for every state of the configuration
\* source; no exception leaves the constructor.
C30_ConstructionNeverRaises ==
    /\ manager.state # "failed"
    /\ manager.raised = "none"

====
